---- MODULE Spec2Model ----
(***************************************************************************)
(* Model of secret-mapping: keyword derivation (keywords.go), the merger   *)
(* combine/findTHMatch (combine.go), the projection toGondolinExport       *)
(* (gondolin.go), the pipeline of main and writeJSONAtomic (main.go).      *)
(*                                                                         *)
(* Strings are TLA+ strings; a character is a string of length 1.  Byte    *)
(* order (Go's < on strings, sort.Strings) is the order of Ascii below.    *)
(***************************************************************************)
EXTENDS Integers, Sequences, FiniteSets, TLC

VARIABLES pc, ruleID, derived, thDetectors, glRules, export, matchLog, clock,
          rawName, thKeyword, kw, normOnce, normTwice,
          export2, gondolin, gondolin2, exactNameHostMap, hostArrays, edits,
          force, output, outFile, tmpFile, tmpCreated, outBefore, writeErr

vars == <<pc, ruleID, derived, thDetectors, glRules, export, matchLog, clock,
          rawName, thKeyword, kw, normOnce, normTwice,
          export2, gondolin, gondolin2, exactNameHostMap, hostArrays, edits,
          force, output, outFile, tmpFile, tmpCreated, outBefore, writeErr>>
deriveVars == <<ruleID, derived>>
combineVars == <<thDetectors, glRules, export, matchLog, clock>>
thNameVars == <<rawName, thKeyword, kw, normOnce, normTwice>>
projectVars == <<export2, gondolin, gondolin2, exactNameHostMap, hostArrays, edits>>
writeVars == <<force, output, outFile, tmpFile, tmpCreated, outBefore, writeErr>>

(***************************************************************************)
(* Bounds of the model.                                                    *)
(***************************************************************************)
MaxTokens == 3
MaxTH == 2
MaxGL == 2
MaxPieces == 3
MaxOrders == 2
MaxServices == 3
MaxEdits == 2

(***************************************************************************)
(* Go strings: bytes, comparison, package strings.                         *)
(***************************************************************************)
Ascii == " *-.0123456789ABCDEFGHIJKLMNOPQRSTUVWXYZ_abcdefghijklmnopqrstuvwxyz"
UpperLetters == "ABCDEFGHIJKLMNOPQRSTUVWXYZ"
LowerLetters == "abcdefghijklmnopqrstuvwxyz"

CharAt(s, i) == SubSeq(s, i, i)

Chars == {CharAt(Ascii, i) : i \in 1..Len(Ascii)}

Ord == [c \in Chars |-> CHOOSE i \in 1..Len(Ascii) : CharAt(Ascii, i) = c]

\* s < t, bytewise (the order sort.Strings and the < of sort.Slice use).
RECURSIVE StrLessFrom(_, _, _)
StrLessFrom(s, t, i) ==
    IF i > Len(t) THEN FALSE
    ELSE IF i > Len(s) THEN TRUE
    ELSE LET a == Ord[CharAt(s, i)]
             b == Ord[CharAt(t, i)]
         IN  IF a # b THEN a < b
             ELSE StrLessFrom(s, t, i + 1)

StrLess(s, t) == s # t /\ StrLessFrom(s, t, 1)

LowerOf ==
    [c \in Chars |->
        IF \E i \in 1..Len(UpperLetters) : CharAt(UpperLetters, i) = c
        THEN CharAt(LowerLetters, CHOOSE i \in 1..Len(UpperLetters) : CharAt(UpperLetters, i) = c)
        ELSE c]

LowerChar(c) == LowerOf[c]

RECURSIVE ToLowerFrom(_, _)
ToLowerFrom(s, i) ==
    IF i > Len(s) THEN "" ELSE LowerChar(CharAt(s, i)) \o ToLowerFrom(s, i + 1)

UpperChars == {CharAt(UpperLetters, i) : i \in 1..Len(UpperLetters)}

\* strings.ToLower: a string without upper-case letters is returned as it is.
ToLower(s) ==
    IF \A i \in 1..Len(s) : CharAt(s, i) \notin UpperChars THEN s ELSE ToLowerFrom(s, 1)

RECURSIVE RemoveAllFrom(_, _, _)
RemoveAllFrom(s, c, i) ==
    IF i > Len(s) THEN ""
    ELSE (IF CharAt(s, i) = c THEN "" ELSE CharAt(s, i)) \o RemoveAllFrom(s, c, i + 1)

\* strings.ReplaceAll(s, c, "") for a one-byte c: a string without c is
\* returned as it is.
RemoveAll(s, c) ==
    IF \A i \in 1..Len(s) : CharAt(s, i) # c THEN s ELSE RemoveAllFrom(s, c, 1)

IsSpace(c) == c = " "

RECURSIVE TrimLeft(_)
TrimLeft(s) ==
    IF s # "" /\ IsSpace(CharAt(s, 1)) THEN TrimLeft(SubSeq(s, 2, Len(s))) ELSE s

RECURSIVE TrimRight(_)
TrimRight(s) ==
    IF s # "" /\ IsSpace(CharAt(s, Len(s))) THEN TrimRight(SubSeq(s, 1, Len(s) - 1)) ELSE s

TrimSpace(s) == TrimRight(TrimLeft(s))

HasPrefix(s, p) == Len(p) <= Len(s) /\ SubSeq(s, 1, Len(p)) = p

HasSuffix(s, x) == Len(x) <= Len(s) /\ SubSeq(s, Len(s) - Len(x) + 1, Len(s)) = x

\* strings.Split(s, sep) for a one-byte sep: always at least one part.
RECURSIVE SplitFrom(_, _, _)
SplitFrom(s, sep, cur) ==
    IF s = "" THEN <<cur>>
    ELSE IF CharAt(s, 1) = sep
         THEN <<cur>> \o SplitFrom(SubSeq(s, 2, Len(s)), sep, "")
         ELSE SplitFrom(SubSeq(s, 2, Len(s)), sep, cur \o CharAt(s, 1))

Split(s, sep) == SplitFrom(s, sep, "")

RECURSIVE Join(_, _)
Join(parts, sep) ==
    IF Len(parts) = 0 THEN ""
    ELSE IF Len(parts) = 1 THEN parts[1]
    ELSE parts[1] \o sep \o Join(Tail(parts), sep)

(***************************************************************************)
(* Static tables of keywords.go.                                           *)
(***************************************************************************)
credentialWords ==
    {"api", "key", "token", "secret", "password", "credential", "credentials",
     "access", "auth", "authentication", "oauth", "pat", "sso", "scim",
     "admin", "user", "client", "service", "bot", "app", "org", "organization",
     "account", "personal", "personnal",
     "public", "pub", "private", "global", "shared", "custom", "sensitive",
     "long", "short", "lived", "fine", "grained", "legacy", "workspace",
     "routable", "test", "batch", "bearer",
     "deploy", "runner", "cicd", "job", "trigger", "registration", "pipeline",
     "feed", "incoming", "session", "cookie", "kubernetes", "agent", "feature",
     "flag", "cloud", "upload", "reference", "identity",
     "signing", "encryption", "ca", "origin", "insert", "browser", "base64",
     "config", "refresh",
     "webhook", "url", "header", "page",
     "ptt", "rrt"}

glServiceOverrides ==
    [k \in {"aws-amazon-bedrock", "contentful-delivery", "curl", "hashicorp-tf",
            "microsoft-teams", "new-relic", "settlemint-application", "yandex-aws"} |->
        CASE k = "aws-amazon-bedrock" -> "aws"
          [] k = "contentful-delivery" -> "contentful"
          [] k = "curl" -> "curl"
          [] k = "hashicorp-tf" -> "hashicorp"
          [] k = "microsoft-teams" -> "microsoft-teams"
          [] k = "new-relic" -> "newrelic"
          [] k = "settlemint-application" -> "settlemint"
          [] k = "yandex-aws" -> "yandex"]

serviceAliases ==
    [k \in {"cisco-meraki", "maxmind-license", "private-key"} |->
        CASE k = "cisco-meraki" -> "meraki"
          [] k = "maxmind-license" -> "maxmind"
          [] k = "private-key" -> "privatekey"]

(***************************************************************************)
(* deriveKeywordFromGitleaksID and normalizeKeyword.                       *)
(***************************************************************************)
RECURSIVE serviceParts_skipCredentialWords(_)
serviceParts_skipCredentialWords(parts) ==
    IF Len(parts) = 0 THEN <<>>
    ELSE (IF Head(parts) \in credentialWords THEN <<>> ELSE <<Head(parts)>>)
         \o serviceParts_skipCredentialWords(Tail(parts))

\* The loop over parts: the tokens before the first credential word.
RECURSIVE serviceParts(_)
serviceParts(parts) ==
    IF Len(parts) = 0 \/ Head(parts) \in credentialWords THEN <<>>
    ELSE <<Head(parts)>> \o serviceParts(Tail(parts))

deriveKeywordFromGitleaksID_noFallback(id) ==
    LET lowered == ToLower(TrimSpace(id)) IN
    IF lowered = "" THEN ""
    ELSE LET name == Join(serviceParts(Split(lowered, "-")), "-") IN
         IF name \in DOMAIN glServiceOverrides
         THEN glServiceOverrides[name] ELSE name

deriveKeywordFromGitleaksID(id) ==
    LET lowered == ToLower(TrimSpace(id)) IN
    IF lowered = "" THEN ""
    ELSE LET sp == serviceParts(Split(lowered, "-")) IN
         IF Len(sp) = 0 THEN lowered
         ELSE LET name == Join(sp, "-") IN
              IF name \in DOMAIN glServiceOverrides
              THEN glServiceOverrides[name] ELSE name

\* strings.Replace(s, c, "", 1) for a one-byte c.
RECURSIVE RemoveFirst(_, _)
RemoveFirst(s, c) ==
    IF s = "" THEN ""
    ELSE IF CharAt(s, 1) = c THEN SubSeq(s, 2, Len(s))
    ELSE CharAt(s, 1) \o RemoveFirst(SubSeq(s, 2, Len(s)), c)

normalizeKeyword_firstOnly(s) == RemoveFirst(RemoveFirst(ToLower(s), "-"), "_")

normalizeKeyword(s) == RemoveAll(RemoveAll(ToLower(s), "-"), "_")

(***************************************************************************)
(* deriveKeywordFromTHName and its tables.                                 *)
(***************************************************************************)
credentialSuffixes_keyFirst ==
    <<"personalaccesstoken", "personaltoken", "personalapikey", "organizationapi",
      "globalapikey", "apppassword", "consumerkey", "orgtoken", "bottoken",
      "accesstoken", "apitokenv2", "apitoken", "key", "apikey", "api", "oauth2", "oauth",
      "webhook", "tokenv2", "tokenv3", "token", "cakey",
      "v2", "v3",
      "cloud", "license">>

credentialSuffixes ==
    <<"personalaccesstoken", "personaltoken", "personalapikey", "organizationapi",
      "globalapikey", "apppassword", "consumerkey", "orgtoken", "bottoken",
      "accesstoken", "apitokenv2", "apitoken", "apikey", "api", "oauth2", "oauth",
      "webhook", "tokenv2", "tokenv3", "token", "cakey", "key",
      "v2", "v3",
      "cloud", "license">>

thKeywordOverrides ==
    [k \in {"gcpapplicationdefaultcredentials", "hubspot_apikey", "adafruitio", "adobeio",
            "flyio", "frameio", "privatekey", "sonarcloud"} |->
        CASE k = "gcpapplicationdefaultcredentials" -> "gcp"
          [] k = "hubspot_apikey" -> "hubspot"
          [] k = "adafruitio" -> "adafruit"
          [] k = "adobeio" -> "adobe"
          [] k = "flyio" -> "flyio"
          [] k = "frameio" -> "frameio"
          [] k = "privatekey" -> "privatekey"
          [] k = "sonarcloud" -> "sonar"]

MinBaseLen == 3

RECURSIVE stripSuffixFrom_noFloor(_, _)
stripSuffixFrom_noFloor(dirName, i) ==
    IF i > Len(credentialSuffixes) THEN dirName
    ELSE LET suffix == credentialSuffixes[i] IN
         IF HasSuffix(dirName, suffix)
         THEN SubSeq(dirName, 1, Len(dirName) - Len(suffix))
         ELSE stripSuffixFrom_noFloor(dirName, i + 1)

\* The loop over credentialSuffixes from index i on.
RECURSIVE stripSuffixFrom(_, _)
stripSuffixFrom(dirName, i) ==
    IF i > Len(credentialSuffixes) THEN dirName
    ELSE LET suffix == credentialSuffixes[i] IN
         IF HasSuffix(dirName, suffix) /\ Len(dirName) - Len(suffix) >= MinBaseLen
         THEN SubSeq(dirName, 1, Len(dirName) - Len(suffix))
         ELSE stripSuffixFrom(dirName, i + 1)

deriveKeywordFromTHName(name) ==
    LET dirName == ToLower(TrimSpace(name)) IN
    IF dirName = "" THEN ""
    ELSE IF dirName \in DOMAIN thKeywordOverrides THEN thKeywordOverrides[dirName]
    ELSE stripSuffixFrom(dirName, 1)

(***************************************************************************)
(* Sorting: sort.Strings and the keys of maps.                              *)
(***************************************************************************)
\* One pass of the insertion sort: x moves left past every larger element.
RECURSIVE insertString(_, _)
insertString(sorted, x) ==
    IF Len(sorted) > 0 /\ StrLess(x, sorted[Len(sorted)])
    THEN Append(insertString(SubSeq(sorted, 1, Len(sorted) - 1), x), sorted[Len(sorted)])
    ELSE Append(sorted, x)

\* sort.Strings: the ascending order of seq (equal strings are interchangeable,
\* so every sorting algorithm returns this list).
RECURSIVE SortStrings(_)
SortStrings(seq) ==
    IF Len(seq) <= 1 THEN seq
    ELSE insertString(SortStrings(SubSeq(seq, 1, Len(seq) - 1)), seq[Len(seq)])

RECURSIVE SetToSeq(_)
SetToSeq(S) ==
    IF S = {} THEN <<>>
    ELSE LET x == CHOOSE y \in S : TRUE IN <<x>> \o SetToSeq(S \ {x})

\* The order in which a range statement visits the keys of a map is not fixed:
\* each run of combine draws a number, and a map is visited in the order that
\* number picks among the arrangements of its keys.
Orders == 0..(MaxOrders - 1)

RECURSIVE arrange(_, _)
arrange(seq, order) ==
    IF Len(seq) = 0 THEN <<>>
    ELSE LET i == (order % Len(seq)) + 1 IN
         <<seq[i]>> \o arrange(SubSeq(seq, 1, i - 1) \o SubSeq(seq, i + 1, Len(seq)),
                               order \div Len(seq))

rangeKeys(S, order) == arrange(SetToSeq(S), order)

sortedKeys_unsorted(hostSet, order) == rangeKeys(hostSet, order)

\* The keys collected in iteration order, then sorted.
sortedKeys(hostSet, order) == SortStrings(rangeKeys(hostSet, order))

Range(seq) == {seq[i] : i \in 1..Len(seq)}

(***************************************************************************)
(* combine and findTHMatch (combine.go).                                   *)
(***************************************************************************)
\* thByKeyword after the indexing loop over th, from the index idx: normalized
\* keyword -> the entries of the detectors with that keyword, in input order.
RECURSIVE thIndexFrom(_, _)
thIndexFrom(th, idx) ==
    IF Len(th) = 0 THEN idx
    ELSE LET d == Head(th)
             norm == normalizeKeyword(d.Keyword)
             e == [dirName |-> d.DirName, hosts |-> d.Hosts]
         IN  thIndexFrom(Tail(th),
                 IF norm \in DOMAIN idx
                 THEN [idx EXCEPT ![norm] = Append(@, e)]
                 ELSE idx @@ (norm :> <<e>>))

thIndex(th) == thIndexFrom(th, <<>>)

MinPrefixLen == 4

NoMatch == [matched |-> <<>>, matchType |-> ""]

\* Strategy 1: the normalized rule keyword is a key of the index.
exactTier(glNorm, thByKeyword) ==
    IF glNorm \in DOMAIN thByKeyword
    THEN [matched |-> <<glNorm>>, matchType |-> "exact"]
    ELSE NoMatch

aliasTier_byNormalizedKeyword(glKeyword, thByKeyword) ==
    LET glNorm == normalizeKeyword(glKeyword) IN
    IF /\ glNorm \in DOMAIN serviceAliases
       /\ normalizeKeyword(serviceAliases[glNorm]) \in DOMAIN thByKeyword
    THEN [matched |-> <<normalizeKeyword(serviceAliases[glNorm])>>, matchType |-> "alias"]
    ELSE NoMatch

\* Strategy 2: the rule keyword as given has an alias whose normal form is indexed.
aliasTier(glKeyword, thByKeyword) ==
    IF /\ glKeyword \in DOMAIN serviceAliases
       /\ normalizeKeyword(serviceAliases[glKeyword]) \in DOMAIN thByKeyword
    THEN [matched |-> <<normalizeKeyword(serviceAliases[glKeyword])>>, matchType |-> "alias"]
    ELSE NoMatch

\* The loop over thByKeyword of strategy 3: the keys the rule keyword is a proper
\* prefix of, in the order the map is visited.
prefixMatches(glNorm, thByKeyword, order) ==
    SelectSeq(rangeKeys(DOMAIN thByKeyword, order),
              LAMBDA thNorm : thNorm # glNorm /\ HasPrefix(thNorm, glNorm))

prefixTier_firstOnly(glNorm, thByKeyword, order) ==
    LET matches == prefixMatches(glNorm, thByKeyword, order)
    IN  IF Len(glNorm) >= MinPrefixLen /\ Len(matches) > 0
        THEN [matched |-> <<SortStrings(matches)[1]>>, matchType |-> "prefix"]
        ELSE NoMatch

prefixTier_oneShorter(glNorm, thByKeyword, order) ==
    LET matches == prefixMatches(glNorm, thByKeyword, order)
    IN  IF Len(glNorm) >= MinPrefixLen - 1 /\ Len(matches) > 0
        THEN [matched |-> SortStrings(matches), matchType |-> "prefix"]
        ELSE NoMatch

\* Strategy 3: the index keys the rule keyword is a proper prefix of, sorted.
prefixTier(glNorm, thByKeyword, order) ==
    LET matches == prefixMatches(glNorm, thByKeyword, order)
    IN  IF Len(glNorm) >= MinPrefixLen /\ Len(matches) > 0
        THEN [matched |-> SortStrings(matches), matchType |-> "prefix"]
        ELSE NoMatch

findTHMatch_aliasFirst(glKeyword, thByKeyword, order) ==
    LET glNorm == normalizeKeyword(glKeyword)
        exact == exactTier(glNorm, thByKeyword)
        alias == aliasTier(glKeyword, thByKeyword)
    IN  IF alias # NoMatch THEN alias
        ELSE IF exact # NoMatch THEN exact
        ELSE prefixTier(glNorm, thByKeyword, order)

findTHMatch(glKeyword, thByKeyword, order) ==
    LET glNorm == normalizeKeyword(glKeyword)
        exact == exactTier(glNorm, thByKeyword)
        alias == aliasTier(glKeyword, thByKeyword)
    IN  IF exact # NoMatch THEN exact
        ELSE IF alias # NoMatch THEN alias
        ELSE prefixTier(glNorm, thByKeyword, order)

RECURSIVE groupRulesFrom_lastSeen(_, _)
groupRulesFrom_lastSeen(gl, g) ==
    IF Len(gl) = 0 THEN g
    ELSE LET r == Head(gl)
             norm == normalizeKeyword(r.Keyword)
         IN  groupRulesFrom_lastSeen(Tail(gl),
                 IF norm \in DOMAIN g.glGroupMap
                 THEN [g EXCEPT !.glGroupMap[norm].rules = Append(@, r),
                                !.glGroupMap[norm].keyword = r.Keyword]
                 ELSE [glGroupMap |-> g.glGroupMap @@ (norm :> [keyword |-> r.Keyword, rules |-> <<r>>]),
                       glKeywords |-> Append(g.glKeywords, norm)])

\* The grouping loop over gl, from the state g: glGroupMap (normalized keyword ->
\* display keyword of the first rule, and the rules) and glKeywords (first seen
\* first, not yet sorted).
RECURSIVE groupRulesFrom(_, _)
groupRulesFrom(gl, g) ==
    IF Len(gl) = 0 THEN g
    ELSE LET r == Head(gl)
             norm == normalizeKeyword(r.Keyword)
         IN  groupRulesFrom(Tail(gl),
                 IF norm \in DOMAIN g.glGroupMap
                 THEN [g EXCEPT !.glGroupMap[norm].rules = Append(@, r)]
                 ELSE [glGroupMap |-> g.glGroupMap @@ (norm :> [keyword |-> r.Keyword, rules |-> <<r>>]),
                       glKeywords |-> Append(g.glKeywords, norm)])

groupRules(gl) == groupRulesFrom(gl, [glGroupMap |-> <<>>, glKeywords |-> <<>>])

CombinedRule(r) ==
    [ID |-> r.ID, Description |-> r.Description, Regex |-> r.Regex,
     Entropy |-> r.Entropy, SecretGroup |-> r.SecretGroup, Keywords |-> r.Keywords]

RECURSIVE matchedEntries_firstEntityOnly(_, _)
matchedEntries_firstEntityOnly(matched, thByKeyword) ==
    IF Len(matched) = 0 THEN <<>>
    ELSE (IF normalizeKeyword(Head(matched)) \in DOMAIN thByKeyword
          THEN <<thByKeyword[normalizeKeyword(Head(matched))][1]>> ELSE <<>>)
         \o matchedEntries_firstEntityOnly(Tail(matched), thByKeyword)

\* The entries of the matched keywords, concatenated in match order.
RECURSIVE matchedEntries(_, _)
matchedEntries(matched, thByKeyword) ==
    IF Len(matched) = 0 THEN <<>>
    ELSE (IF normalizeKeyword(Head(matched)) \in DOMAIN thByKeyword
          THEN thByKeyword[normalizeKeyword(Head(matched))] ELSE <<>>)
         \o matchedEntries(Tail(matched), thByKeyword)

\* One iteration of the loop over glKeywords: the service of one group.
buildService(glg, m, thByKeyword, order) ==
    LET entries == matchedEntries(m.matched, thByKeyword)
        hostSet == UNION {Range(entries[i].hosts) : i \in 1..Len(entries)}
        matchedNames == [i \in 1..Len(entries) |-> entries[i].dirName]
    IN  [Keyword |-> glg.keyword,
         Hosts |-> sortedKeys(hostSet, order),
         MatchType |-> m.matchType,
         MatchedTH |-> SortStrings(matchedNames),
         Rules |-> [i \in 1..Len(glg.rules) |-> CombinedRule(glg.rules[i])]]

ZeroStats ==
    [TotalServices |-> 0, ServicesWithHosts |-> 0, ServicesNoHosts |-> 0,
     THOnlyServices |-> 0, TotalRules |-> 0, RulesWithHosts |-> 0,
     MatchExact |-> 0, MatchPrefix |-> 0, MatchAlias |-> 0]

countService_everyMatch(stats, svc) ==
    LET n == Len(svc.Rules)
        s1 == [stats EXCEPT !.TotalRules = @ + n,
                            !.MatchExact = IF svc.MatchType = "exact" THEN @ + 1 ELSE @,
                            !.MatchPrefix = IF svc.MatchType = "prefix" THEN @ + 1 ELSE @,
                            !.MatchAlias = IF svc.MatchType = "alias" THEN @ + 1 ELSE @]
    IN  IF Len(svc.Hosts) > 0
        THEN [s1 EXCEPT !.ServicesWithHosts = @ + 1,
                        !.RulesWithHosts = @ + n]
        ELSE [s1 EXCEPT !.ServicesNoHosts = @ + 1]

\* The statistics after one more service.
countService(stats, svc) ==
    LET n == Len(svc.Rules)
        s1 == [stats EXCEPT !.TotalRules = @ + n]
    IN  IF Len(svc.Hosts) > 0
        THEN [s1 EXCEPT !.ServicesWithHosts = @ + 1,
                        !.RulesWithHosts = @ + n,
                        !.MatchExact = IF svc.MatchType = "exact" THEN @ + 1 ELSE @,
                        !.MatchPrefix = IF svc.MatchType = "prefix" THEN @ + 1 ELSE @,
                        !.MatchAlias = IF svc.MatchType = "alias" THEN @ + 1 ELSE @]
        ELSE [s1 EXCEPT !.ServicesNoHosts = @ + 1]

appendNoHosts_never(glNoHosts, svc) == glNoHosts

\* glNoHosts after one more service: services without hosts are listed.
appendNoHosts(glNoHosts, svc) ==
    IF Len(svc.Hosts) > 0 THEN glNoHosts ELSE Append(glNoHosts, svc.Keyword)

\* The loop over the sorted glKeywords, from the state acc.  acc.matches keeps
\* what findTHMatch returned in each iteration (the locals matchedTH, matchType).
RECURSIVE matchGroups(_, _, _, _, _)
matchGroups(keys, glGroupMap, thByKeyword, acc, order) ==
    IF Len(keys) = 0 THEN acc
    ELSE LET glg == glGroupMap[Head(keys)]
             m == findTHMatch(glg.keyword, thByKeyword, order)
             svc == buildService(glg, m, thByKeyword, order)
         IN  matchGroups(Tail(keys), glGroupMap, thByKeyword,
                 [services |-> Append(acc.services, svc),
                  matches |-> Append(acc.matches, m),
                  stats |-> countService(acc.stats, svc),
                  glNoHosts |-> appendNoHosts(acc.glNoHosts, svc),
                  thUsed |-> acc.thUsed \cup Range(svc.MatchedTH)],
                 order)

THOnlyEntry(d) == [Keyword |-> d.Keyword, DirName |-> d.DirName, Hosts |-> d.Hosts]

KeywordLess(a, b) == StrLess(a.Keyword, b.Keyword)

RECURSIVE insertByKeyword(_, _)
insertByKeyword(sorted, x) ==
    IF Len(sorted) > 0 /\ KeywordLess(x, sorted[Len(sorted)])
    THEN Append(insertByKeyword(SubSeq(sorted, 1, Len(sorted) - 1), x), sorted[Len(sorted)])
    ELSE Append(sorted, x)

\* sort.Slice(thOnly, less by Keyword): below 12 elements an insertion sort, so
\* entries with equal keywords keep their order.
RECURSIVE sortByKeyword(_)
sortByKeyword(seq) ==
    IF Len(seq) <= 1 THEN seq
    ELSE insertByKeyword(sortByKeyword(SubSeq(seq, 1, Len(seq) - 1)), seq[Len(seq)])

collectTHOnly_ignoreUsed(th, thUsed) ==
    sortByKeyword([i \in 1..Len(th) |-> THOnlyEntry(th[i])])

collectTHOnly_unsorted(th, thUsed) ==
    LET unused == SelectSeq(th, LAMBDA d : d.DirName \notin thUsed)
    IN  [i \in 1..Len(unused) |-> THOnlyEntry(unused[i])]

\* The detectors whose DirName was never claimed, sorted by Keyword.
collectTHOnly(th, thUsed) ==
    LET unused == SelectSeq(th, LAMBDA d : d.DirName \notin thUsed)
    IN  sortByKeyword([i \in 1..Len(unused) |-> THOnlyEntry(unused[i])])

sortedGLKeywords_discoveryOrder(g) == g.glKeywords

sortedGLKeywords(g) == SortStrings(g.glKeywords)

\* The locals of combine when it returns, in a run whose maps are visited in
\* the order order.
combineRun(th, gl, order) ==
    LET thByKeyword == thIndex(th)
        g == groupRules(gl)
        acc == matchGroups(sortedGLKeywords(g), g.glGroupMap, thByKeyword,
                   [services |-> <<>>, matches |-> <<>>, stats |-> ZeroStats,
                    glNoHosts |-> <<>>, thUsed |-> {}],
                   order)
    IN  [acc EXCEPT !.glNoHosts = SortStrings(@)] @@ [thOnly |-> collectTHOnly(th, acc.thUsed)]

finalStats_servicesOnly(stats, services, thOnly) ==
    [stats EXCEPT !.TotalServices = Len(services),
                  !.THOnlyServices = Len(thOnly)]

finalStats(stats, services, thOnly) ==
    [stats EXCEPT !.TotalServices = Len(services) + Len(thOnly),
                  !.THOnlyServices = Len(thOnly)]

\* The CombinedExport combine returns from its locals run, at time now.
combineExport(run, now) ==
    [set |-> TRUE,
     GeneratedAt |-> now,
     Stats |-> finalStats(run.stats, run.services, run.thOnly),
     Services |-> run.services,
     THOnlyHosts |-> run.thOnly,
     GLNoHosts |-> run.glNoHosts]

combine(th, gl, now, order) == combineExport(combineRun(th, gl, order), now)

(***************************************************************************)
(* The package variable exactNameHostMap (gondolin.go).  A map value is a  *)
(* slice, that is a reference to a backing array: hostArrays holds the     *)
(* arrays, and a map holds for each key the name of its array.  The array  *)
(* of each literal is named after its key.                                 *)
(***************************************************************************)
exactNameHostMapLiteral ==
    [k \in {"NODE_AUTH_TOKEN", "DD_API_KEY", "HF_TOKEN", "CO_API_KEY", "FLY_API_TOKEN",
            "RENDER_API_KEY", "LINEAR_API_KEY", "TOGETHER_API_KEY", "REPLICATE_API_TOKEN"} |->
        CASE k = "NODE_AUTH_TOKEN" -> <<"registry.npmjs.org">>
          [] k = "DD_API_KEY" -> <<"api.datadoghq.com", "*.datadoghq.com">>
          [] k = "HF_TOKEN" -> <<"huggingface.co", "*.huggingface.co">>
          [] k = "CO_API_KEY" -> <<"api.cohere.com">>
          [] k = "FLY_API_TOKEN" -> <<"api.fly.io">>
          [] k = "RENDER_API_KEY" -> <<"api.render.com">>
          [] k = "LINEAR_API_KEY" -> <<"api.linear.app">>
          [] k = "TOGETHER_API_KEY" -> <<"api.together.xyz">>
          [] k = "REPLICATE_API_TOKEN" -> <<"api.replicate.com">>]

NoExport == [set |-> FALSE]

(***************************************************************************)
(* toGondolinExport (gondolin.go).                                         *)
(***************************************************************************)
RECURSIVE keywordHostsFrom_all(_, _)
keywordHostsFrom_all(services, m) ==
    IF Len(services) = 0 THEN m
    ELSE LET svc == Head(services) IN
         keywordHostsFrom_all(Tail(services),
             IF svc.Keyword \in DOMAIN m
             THEN [m EXCEPT ![svc.Keyword] = svc.Hosts]
             ELSE m @@ (svc.Keyword :> svc.Hosts))

\* The first loop over full.Services, from the map m: keywordHosts.
RECURSIVE keywordHostsFrom(_, _)
keywordHostsFrom(services, m) ==
    IF Len(services) = 0 THEN m
    ELSE LET svc == Head(services) IN
         keywordHostsFrom(Tail(services),
             IF Len(svc.Hosts) > 0
             THEN (IF svc.Keyword \in DOMAIN m
                   THEN [m EXCEPT ![svc.Keyword] = svc.Hosts]
                   ELSE m @@ (svc.Keyword :> svc.Hosts))
             ELSE m)

\* The keys set in hasHosts by the first loop.
hasHostsOf(services) ==
    {normalizeKeyword(services[i].Keyword) :
        i \in {i \in 1..Len(services) : Len(services[i].Hosts) > 0}}

\* The pattern of rule r of service svc; Keyword "" is the field left unset.
ValuePattern(r, svc, hasHosts) ==
    [ID |-> r.ID,
     Keyword |-> IF normalizeKeyword(svc.Keyword) \in hasHosts THEN svc.Keyword ELSE "",
     Regex |-> r.Regex,
     Keywords |-> r.Keywords,
     SecretGroup |-> r.SecretGroup]

\* The second loop: one pattern per rule, service by service.
RECURSIVE flattenPatterns(_, _)
flattenPatterns(services, hasHosts) ==
    IF Len(services) = 0 THEN <<>>
    ELSE LET svc == Head(services) IN
         [i \in 1..Len(svc.Rules) |-> ValuePattern(svc.Rules[i], svc, hasHosts)]
             \o flattenPatterns(Tail(services), hasHosts)

PatternLess_byKeywordOnly(a, b) ==
    IF a.Keyword # b.Keyword THEN StrLess(a.Keyword, b.Keyword)
    ELSE StrLess(a.ID, b.ID)

\* The less function of the sort of patterns.
PatternLess(a, b) ==
    IF a.Keyword = "" /\ b.Keyword # "" THEN FALSE
    ELSE IF a.Keyword # "" /\ b.Keyword = "" THEN TRUE
    ELSE IF a.Keyword # b.Keyword THEN StrLess(a.Keyword, b.Keyword)
    ELSE StrLess(a.ID, b.ID)

RECURSIVE insertPattern(_, _)
insertPattern(sorted, x) ==
    IF Len(sorted) > 0 /\ PatternLess(x, sorted[Len(sorted)])
    THEN Append(insertPattern(SubSeq(sorted, 1, Len(sorted) - 1), x), sorted[Len(sorted)])
    ELSE Append(sorted, x)

\* sort.Slice(patterns, less): below 12 elements an insertion sort.
RECURSIVE sortPatterns(_)
sortPatterns(patterns) ==
    IF Len(patterns) <= 1 THEN patterns
    ELSE insertPattern(sortPatterns(SubSeq(patterns, 1, Len(patterns) - 1)),
                       patterns[Len(patterns)])

toGondolinExport_zeroTime(full) ==
    [set |-> TRUE,
     SchemaVersion |-> 1,
     GeneratedAt |-> 0,
     KeywordHostMap |-> keywordHostsFrom(full.Services, <<>>),
     ExactNameHostMap |-> [k \in DOMAIN exactNameHostMap |-> exactNameHostMap[k]],
     ValuePatterns |-> sortPatterns(flattenPatterns(full.Services, hasHostsOf(full.Services)))]

\* exactMap takes, key by key, the slice the package variable holds.
toGondolinExport(full) ==
    [set |-> TRUE,
     SchemaVersion |-> 1,
     GeneratedAt |-> full.GeneratedAt,
     KeywordHostMap |-> keywordHostsFrom(full.Services, <<>>),
     ExactNameHostMap |-> [k \in DOMAIN exactNameHostMap |-> exactNameHostMap[k]],
     ValuePatterns |-> sortPatterns(flattenPatterns(full.Services, hasHostsOf(full.Services)))]

\* The state before any export is projected: the package variable as initialized.
InitProject ==
    /\ export2 = NoExport
    /\ gondolin = NoExport
    /\ gondolin2 = NoExport
    /\ exactNameHostMap = [k \in DOMAIN exactNameHostMapLiteral |-> k]
    /\ hostArrays = exactNameHostMapLiteral
    /\ edits = 0

\* A file that does not exist; the content of a file is a string.
Absent == [exists |-> FALSE]

\* The state of the runs that write to stdout (-out -): no file is touched.
InitNoWrite ==
    /\ force = FALSE
    /\ output = ""
    /\ outFile = Absent
    /\ tmpFile = Absent
    /\ tmpCreated = FALSE
    /\ outBefore = Absent
    /\ writeErr = ""

InitTHName ==
    /\ rawName = ""
    /\ thKeyword = ""
    /\ kw = ""
    /\ normOnce = ""
    /\ normTwice = ""

(***************************************************************************)
(* The derivation run: a rule identifier is assembled token by token (as   *)
(* they appear in gitleaks.toml, or as a caller writes them), then derived.*)
(***************************************************************************)
Tokens == {"cloudflare", "cisco", "meraki", "new", "relic", "api", "key", "private", "Key", ""}

InitDerive ==
    /\ pc = "id-empty"
    /\ ruleID = ""
    /\ derived = ""
    /\ thDetectors = <<>>
    /\ glRules = <<>>
    /\ export = NoExport
    /\ matchLog = <<>>
    /\ clock = 0
    /\ InitTHName
    /\ InitProject
    /\ InitNoWrite

FirstToken(t) ==
    /\ pc = "id-empty"
    /\ ruleID' = t
    /\ pc' = "id"
    /\ UNCHANGED <<writeVars, derived, combineVars, thNameVars, projectVars>>

AppendToken(t) ==
    /\ pc = "id"
    /\ Len(Split(ruleID, "-")) < MaxTokens
    /\ ruleID' = ruleID \o "-" \o t
    /\ UNCHANGED <<writeVars, pc, derived, combineVars, thNameVars, projectVars>>

PadSpaces ==
    /\ pc \in {"id-empty", "id"}
    /\ ruleID' = " " \o ruleID \o " "
    /\ pc' = "id-padded"
    /\ UNCHANGED <<writeVars, derived, combineVars, thNameVars, projectVars>>

Derive ==
    /\ pc \in {"id-empty", "id", "id-padded"}
    /\ derived' = deriveKeywordFromGitleaksID(ruleID)
    /\ pc' = "derived"
    /\ UNCHANGED <<writeVars, ruleID, combineVars, thNameVars, projectVars>>

NextDerive ==
    \/ \E t \in Tokens : FirstToken(t)
    \/ \E t \in Tokens : AppendToken(t)
    \/ PadSpaces
    \/ Derive

SpecDerive == InitDerive /\ [][NextDerive]_vars

(***************************************************************************)
(* The name run: a detector directory name, put together from a few        *)
(* pieces, is derived into a keyword; the name or the keyword is then      *)
(* normalized, and the normal form normalized again.                       *)
(***************************************************************************)
Pieces == {"npm", "private", "token", "api", "key", "Key", "v2", "io", "_", "-", " "}

RECURSIVE NamesOf(_)
NamesOf(n) ==
    IF n = 0 THEN {""}
    ELSE LET shorter == NamesOf(n - 1) IN shorter \cup {x \o p : x \in shorter, p \in Pieces}

InitTH ==
    /\ pc = "name"
    /\ rawName \in NamesOf(MaxPieces)
    /\ thKeyword = ""
    /\ kw = ""
    /\ normOnce = ""
    /\ normTwice = ""
    /\ ruleID = ""
    /\ derived = ""
    /\ thDetectors = <<>>
    /\ glRules = <<>>
    /\ export = NoExport
    /\ matchLog = <<>>
    /\ clock = 0
    /\ InitProject
    /\ InitNoWrite

DeriveTH ==
    /\ pc = "name"
    /\ thKeyword' = deriveKeywordFromTHName(rawName)
    /\ pc' = "th-derived"
    /\ UNCHANGED <<writeVars, rawName, kw, normOnce, normTwice, deriveVars, combineVars, projectVars>>

Normalize ==
    /\ pc \in {"name", "th-derived"}
    /\ kw' = IF pc = "name" THEN rawName ELSE thKeyword
    /\ normOnce' = normalizeKeyword(kw')
    /\ pc' = "normalized"
    /\ UNCHANGED <<writeVars, rawName, thKeyword, normTwice, deriveVars, combineVars, projectVars>>

NormalizeAgain ==
    /\ pc = "normalized"
    /\ normTwice' = normalizeKeyword(normOnce)
    /\ pc' = "normalized-twice"
    /\ UNCHANGED <<writeVars, rawName, thKeyword, kw, normOnce, deriveVars, combineVars, projectVars>>

NextTH ==
    \/ DeriveTH
    \/ Normalize
    \/ NormalizeAgain

SpecTH == InitTH /\ [][NextTH]_vars

(***************************************************************************)
(* The merge run: the two input lists are assembled record by record,      *)
(* in any order and with repeats (combine is also called directly, as the  *)
(* tests do), and then combine runs once.                                  *)
(***************************************************************************)
\* A detector as extractTrufflehogDetectors builds it.
THDetector(dirName, hosts) ==
    [DirName |-> dirName, Keyword |-> deriveKeywordFromTHName(dirName), Hosts |-> hosts]

\* A rule as extractGitleaksRules builds it.
GLRule(id) ==
    [ID |-> id, Keyword |-> deriveKeywordFromGitleaksID(id), Description |-> "",
     Regex |-> "(" \o id \o ")", Entropy |-> 0, SecretGroup |-> 0, Keywords |-> <<>>]

DetectorPool ==
    {THDetector("meraki", <<"api.meraki.com">>),
     THDetector("ciscomerakiapikey", <<"api.meraki.com", "n1.meraki.com">>),
     THDetector("ciscomerakidashboard", <<"dashboard.meraki.com">>),
     THDetector("coinbase", <<"api.coinbase.com">>),
     THDetector("coincap", <<"api.coincap.io">>)}

RulePool ==
    {GLRule("cisco-meraki-api-key"),
     GLRule("meraki-api-key"),
     GLRule("coin-api-key"),
     GLRule("coinbase-access-token"),
     GLRule("coi-secret")}

Init ==
    /\ pc = "input"
    /\ ruleID = ""
    /\ derived = ""
    /\ thDetectors = <<>>
    /\ glRules = <<>>
    /\ export = NoExport
    /\ matchLog = <<>>
    /\ clock = 0
    /\ InitTHName
    /\ InitProject
    /\ InitNoWrite

AddDetector(d) ==
    /\ pc = "input"
    /\ Len(thDetectors) < MaxTH
    /\ thDetectors' = Append(thDetectors, d)
    /\ UNCHANGED <<writeVars, pc, deriveVars, glRules, export, matchLog, clock, thNameVars, projectVars>>

AddRule(r) ==
    /\ pc = "input"
    /\ Len(glRules) < MaxGL
    /\ glRules' = Append(glRules, r)
    /\ UNCHANGED <<writeVars, pc, deriveVars, thDetectors, export, matchLog, clock, thNameVars, projectVars>>

Combine ==
    /\ pc = "input"
    /\ \E order \in Orders :
          LET run == combineRun(thDetectors, glRules, order)
          IN  /\ export' = combineExport(run, clock)
              /\ matchLog' = run.matches
    /\ clock' = clock + 1
    /\ pc' = "combined"
    /\ UNCHANGED <<writeVars, deriveVars, thDetectors, glRules, thNameVars, projectVars>>

Next ==
    \/ \E d \in DetectorPool : AddDetector(d)
    \/ \E r \in RulePool : AddRule(r)
    \/ Combine

Spec == Init /\ [][Next]_vars

(***************************************************************************)
(* The repeated run: main in gondolin mode (combine, then toGondolinExport)*)
(* and then once more on the same two lists.                               *)
(***************************************************************************)
RerunDetectors ==
    {THDetector("meraki", <<"api.meraki.com">>),
     THDetector("merakitoken", <<"dashboard.meraki.com", "n1.meraki.com">>),
     THDetector("coinbase", <<"api.coinbase.com">>),
     THDetector("coincap", <<"api.coincap.io">>)}

RerunRules ==
    {GLRule("cisco-meraki-api-key"),
     GLRule("meraki-api-key"),
     GLRule("coin-api-key")}

ToGondolin ==
    /\ pc \in {"combined", "full"}
    /\ gondolin' = toGondolinExport(export)
    /\ pc' = "projected"
    /\ UNCHANGED <<writeVars, deriveVars, combineVars, thNameVars,
                   export2, gondolin2, exactNameHostMap, hostArrays, edits>>

Rerun ==
    /\ pc = "projected"
    /\ \E order \in Orders : export2' = combine(thDetectors, glRules, clock, order)
    /\ gondolin2' = toGondolinExport(export2')
    /\ clock' = clock + 1
    /\ pc' = "rerun"
    /\ UNCHANGED <<writeVars, deriveVars, thDetectors, glRules, export, matchLog, thNameVars,
                   gondolin, exactNameHostMap, hostArrays, edits>>

NextRerun ==
    \/ \E d \in RerunDetectors : AddDetector(d)
    \/ \E r \in RerunRules : AddRule(r)
    \/ Combine
    \/ ToGondolin
    \/ Rerun

SpecRerun == Init /\ [][NextRerun]_vars

(***************************************************************************)
(* The projection run: a CombinedExport is written down service by service *)
(* (as the tests of toGondolinExport do) and then projected.               *)
(***************************************************************************)
CombinedSvc(keyword, hosts, ruleIDs) ==
    [Keyword |-> keyword,
     Hosts |-> hosts,
     MatchType |-> IF Len(hosts) > 0 THEN "exact" ELSE "",
     MatchedTH |-> IF Len(hosts) > 0 THEN <<keyword>> ELSE <<>>,
     Rules |-> [i \in 1..Len(ruleIDs) |-> CombinedRule(GLRule(ruleIDs[i]))]]

ServicePool ==
    {CombinedSvc("stripe", <<"api.stripe.com">>, <<"stripe-access-token">>),
     CombinedSvc("age", <<>>, <<"age-secret-key">>),
     CombinedSvc("zebra", <<>>, <<"zebra-key">>),
     CombinedSvc("alpha", <<"api.alpha.com">>, <<"alpha-token", "alpha-key">>),
     CombinedSvc("microsoft-teams", <<"teams.microsoft.com">>, <<"microsoft-teams-webhook">>),
     CombinedSvc("microsoftteams", <<>>, <<"microsoftteams-webhook">>)}

EmptyExport ==
    [set |-> TRUE, GeneratedAt |-> 0, Stats |-> ZeroStats,
     Services |-> <<>>, THOnlyHosts |-> <<>>, GLNoHosts |-> <<>>]

InitGondolin ==
    /\ pc = "full"
    /\ export = EmptyExport
    /\ ruleID = ""
    /\ derived = ""
    /\ thDetectors = <<>>
    /\ glRules = <<>>
    /\ matchLog = <<>>
    /\ clock = 0
    /\ InitTHName
    /\ InitProject
    /\ InitNoWrite

AddService(svc) ==
    /\ pc = "full"
    /\ Len(export.Services) < MaxServices
    /\ export' = [export EXCEPT !.Services = Append(@, svc)]
    /\ UNCHANGED <<writeVars, pc, deriveVars, thDetectors, glRules, matchLog, clock, thNameVars, projectVars>>

NextGondolin ==
    \/ \E svc \in ServicePool : AddService(svc)
    \/ ToGondolin

SpecGondolin == InitGondolin /\ [][NextGondolin]_vars

(***************************************************************************)
(* The consumer run: the export of the test is projected, the consumer     *)
(* edits the ExactNameHostMap it was handed, and the export is projected   *)
(* again.                                                                  *)
(***************************************************************************)
TestExport ==
    [EmptyExport EXCEPT
        !.Services = <<CombinedSvc("stripe", <<"api.stripe.com">>, <<"stripe-access-token">>),
                       CombinedSvc("age", <<>>, <<"age-secret-key">>)>>,
        !.GLNoHosts = <<"age">>]

InitConsumer ==
    /\ pc = "full"
    /\ export = TestExport
    /\ ruleID = ""
    /\ derived = ""
    /\ thDetectors = <<>>
    /\ glRules = <<>>
    /\ matchLog = <<>>
    /\ clock = 0
    /\ InitTHName
    /\ InitProject
    /\ InitNoWrite

\* m[k] = hosts on the map handed out, hosts a slice of its own.
SetKey(k, hosts) ==
    /\ pc = "projected"
    /\ edits < MaxEdits
    /\ ("consumer:" \o k) \notin DOMAIN hostArrays
    /\ hostArrays' = hostArrays @@ (("consumer:" \o k) :> hosts)
    /\ gondolin' = [gondolin EXCEPT !.ExactNameHostMap =
                       IF k \in DOMAIN @ THEN [@ EXCEPT ![k] = "consumer:" \o k]
                       ELSE @ @@ (k :> ("consumer:" \o k))]
    /\ edits' = edits + 1
    /\ UNCHANGED <<writeVars, pc, deriveVars, combineVars, thNameVars, export2, gondolin2, exactNameHostMap>>

\* delete(m, k) on the map handed out.
DeleteKey(k) ==
    /\ pc = "projected"
    /\ edits < MaxEdits
    /\ k \in DOMAIN gondolin.ExactNameHostMap
    /\ gondolin' = [gondolin EXCEPT !.ExactNameHostMap =
                       [x \in DOMAIN @ \ {k} |-> @[x]]]
    /\ edits' = edits + 1
    /\ UNCHANGED <<writeVars, pc, deriveVars, combineVars, thNameVars, export2, gondolin2,
                   exactNameHostMap, hostArrays>>

\* m[k][i] = h on the map handed out: a store into the array the slice refers to.
OverwriteHost(k, i, h) ==
    /\ pc = "projected"
    /\ edits < MaxEdits
    /\ k \in DOMAIN gondolin.ExactNameHostMap
    /\ i \in 1..Len(hostArrays[gondolin.ExactNameHostMap[k]])
    /\ hostArrays' = [hostArrays EXCEPT ![gondolin.ExactNameHostMap[k]][i] = h]
    /\ edits' = edits + 1
    /\ UNCHANGED <<writeVars, pc, deriveVars, combineVars, thNameVars, export2, gondolin, gondolin2,
                   exactNameHostMap>>

ToGondolinAgain ==
    /\ pc = "projected"
    /\ gondolin2' = toGondolinExport(export)
    /\ pc' = "projected-again"
    /\ UNCHANGED <<writeVars, deriveVars, combineVars, thNameVars, export2, gondolin,
                   exactNameHostMap, hostArrays, edits>>

ConsumerKeys == DOMAIN exactNameHostMapLiteral \cup {"AWS_ACCESS_KEY_ID"}

NextConsumer ==
    \/ ToGondolin
    \/ \E k \in ConsumerKeys : SetKey(k, <<"sts.amazonaws.com">>)
    \/ \E k \in ConsumerKeys : DeleteKey(k)
    \/ \E k \in ConsumerKeys, i \in 1..2 : OverwriteHost(k, i, "evil.example.com")
    \/ ToGondolinAgain

SpecConsumer == InitConsumer /\ [][NextConsumer]_vars

(***************************************************************************)
(* The policy run: main in gondolin mode on lists that hold the entries    *)
(* the changelog of 0.1.8 speaks of (private-key and crt.sh, aws), and a   *)
(* rule identifier with a leading hyphen.                                  *)
(***************************************************************************)
PolicyDetectors ==
    {THDetector("privatekey", <<"crt.sh">>),
     THDetector("aws", <<"sts.amazonaws.com">>),
     THDetector("_", <<"underscore.example.com">>)}

PolicyRules ==
    {GLRule("private-key"),
     GLRule("aws-access-token"),
     GLRule("-api-key")}

NextPolicy ==
    \/ \E d \in PolicyDetectors : AddDetector(d)
    \/ \E r \in PolicyRules : AddRule(r)
    \/ Combine
    \/ ToGondolin

SpecPolicy == Init /\ [][NextPolicy]_vars

\* The number of patterns with a keyword, as main prints it.
countLinkedPatterns(patterns) ==
    Cardinality({i \in 1..Len(patterns) : patterns[i].Keyword # ""})

(***************************************************************************)
(* The permuted run: combine runs on two lists and then once more on the   *)
(* same lists with two neighbours of one list exchanged.  The lists hold   *)
(* a detector without hosts (combine called directly, as the tests do),    *)
(* two detectors with one keyword, and two rules whose keywords differ     *)
(* only by a hyphen, one of them a key of serviceAliases.                  *)
(***************************************************************************)
PermuteDetectors ==
    {THDetector("maxmind", <<"geoip.maxmind.com">>),
     THDetector("aws", <<>>),
     THDetector("awstoken", <<"sts.amazonaws.com">>)}

PermuteRules ==
    {GLRule("maxmind-license-key"),
     GLRule("maxmindlicense-key"),
     GLRule("aws-access-token")}

\* The list seq with the elements at i and i + 1 exchanged.
swap(seq, i) ==
    [k \in 1..Len(seq) |-> IF k = i THEN seq[i + 1] ELSE IF k = i + 1 THEN seq[i] ELSE seq[k]]

CombinePermuted ==
    /\ pc = "combined"
    /\ \E order \in Orders :
          \/ \E i \in 1..(Len(thDetectors) - 1) :
                export2' = combine(swap(thDetectors, i), glRules, clock, order)
          \/ \E i \in 1..(Len(glRules) - 1) :
                export2' = combine(thDetectors, swap(glRules, i), clock, order)
    /\ clock' = clock + 1
    /\ pc' = "permuted"
    /\ UNCHANGED <<writeVars, deriveVars, thDetectors, glRules, export, matchLog, thNameVars,
                   gondolin, gondolin2, exactNameHostMap, hostArrays, edits>>

NextPermute ==
    \/ \E d \in PermuteDetectors : AddDetector(d)
    \/ \E r \in PermuteRules : AddRule(r)
    \/ Combine
    \/ CombinePermuted

SpecPermute == Init /\ [][NextPermute]_vars

(***************************************************************************)
(* The write run: writeJSONAtomic(outPath, force, v) of main.go, one system *)
(* call per step, each with the outcomes it can have.  outFile is the file *)
(* at outPath, tmpFile the temporary file; outBefore and tmpCreated record *)
(* the file before the call and whether a temporary file was ever made.    *)
(***************************************************************************)
File(content) == [exists |-> TRUE, content |-> content]

\* The JSON of the two payloads of main (-mode full, -mode gondolin).
Outputs == {"{full}", "{gondolin}"}

InitWrite ==
    /\ pc = "write-call"
    /\ force \in BOOLEAN
    /\ output \in Outputs
    /\ outFile \in {Absent, File("{old}")}
    /\ outBefore = outFile
    /\ tmpFile = Absent
    /\ tmpCreated = FALSE
    /\ writeErr = ""
    /\ ruleID = ""
    /\ derived = ""
    /\ thDetectors = <<>>
    /\ glRules = <<>>
    /\ export = NoExport
    /\ matchLog = <<>>
    /\ clock = 0
    /\ InitTHName
    /\ export2 = NoExport
    /\ gondolin = NoExport
    /\ gondolin2 = NoExport
    /\ exactNameHostMap = [k \in DOMAIN exactNameHostMapLiteral |-> k]
    /\ hostArrays = exactNameHostMapLiteral
    /\ edits = 0

otherVars == <<deriveVars, combineVars, thNameVars, projectVars>>

existsCheck_statErrorsOnly(f, file, statFails) ==
    IF f THEN ""
    ELSE IF statFails THEN "stat output"
    ELSE ""

\* The test before any file is made: "" to go on, or the error returned.
existsCheck(f, file, statFails) ==
    IF f THEN ""
    ELSE IF statFails THEN "stat output"
    ELSE IF file.exists THEN "output file already exists"
    ELSE ""

\* if !force { os.Stat(outPath) ... }: Stat finds the file, finds none, or fails
\* for another reason.
Stat ==
    /\ pc = "write-call"
    /\ \E statFails \in BOOLEAN :
          LET e == existsCheck(force, outFile, statFails) IN
          /\ writeErr' = e
          /\ pc' = IF e = "" THEN "write-create" ELSE "write-done"
    /\ UNCHANGED <<force, output, outFile, tmpFile, tmpCreated, outBefore, otherVars>>

\* os.CreateTemp(dir, base+".tmp-*").
CreateTemp ==
    /\ pc = "write-create"
    /\ \/ /\ tmpFile' = File("")
          /\ tmpCreated' = TRUE
          /\ pc' = "write-chmod"
          /\ UNCHANGED writeErr
       \/ /\ writeErr' = "create temp output"
          /\ pc' = "write-done"
          /\ UNCHANGED <<tmpFile, tmpCreated>>
    /\ UNCHANGED <<force, output, outFile, outBefore, otherVars>>

\* A failure after the temporary file was made: (close,) cleanup, return err.
failWith(e) ==
    /\ tmpFile' = Absent
    /\ writeErr' = e
    /\ pc' = "write-done"

\* f.Chmod(0o644).
Chmod ==
    /\ pc = "write-chmod"
    /\ \/ pc' = "write-encode" /\ UNCHANGED <<tmpFile, writeErr>>
       \/ failWith("chmod temp output")
    /\ UNCHANGED <<force, output, outFile, tmpCreated, outBefore, otherVars>>

\* enc.Encode(v): the whole document is written, or the write stops after a
\* proper prefix of it and Encode returns the error.
Encode ==
    /\ pc = "write-encode"
    /\ \/ /\ tmpFile' = File(output)
          /\ pc' = "write-sync"
       \/ \E k \in 0..(Len(output) - 1) :
            /\ tmpFile' = File(SubSeq(output, 1, k))
            /\ pc' = "write-encode-failed"
    /\ UNCHANGED <<force, output, outFile, tmpCreated, outBefore, writeErr, otherVars>>

\* The error branch of Encode.
EncodeFailed ==
    /\ pc = "write-encode-failed"
    /\ failWith("encode json")
    /\ UNCHANGED <<force, output, outFile, tmpCreated, outBefore, otherVars>>

\* f.Sync().
Sync ==
    /\ pc = "write-sync"
    /\ \/ pc' = "write-close" /\ UNCHANGED <<tmpFile, writeErr>>
       \/ failWith("sync temp output")
    /\ UNCHANGED <<force, output, outFile, tmpCreated, outBefore, otherVars>>

\* f.Close().
Close ==
    /\ pc = "write-close"
    /\ \/ pc' = "write-remove" /\ UNCHANGED <<tmpFile, writeErr>>
       \/ failWith("close temp output")
    /\ UNCHANGED <<force, output, outFile, tmpCreated, outBefore, otherVars>>

\* if force { _ = os.Remove(outPath) }: the file at outPath afterwards; removed
\* tells whether the call, if made, succeeded.
removeFirst(f, file, removed) ==
    IF f /\ removed THEN Absent ELSE file

RemoveOut ==
    /\ pc = "write-remove"
    /\ \E removed \in BOOLEAN : outFile' = removeFirst(force, outFile, removed)
    /\ pc' = "write-rename"
    /\ UNCHANGED <<force, output, tmpFile, tmpCreated, outBefore, writeErr, otherVars>>

\* os.Rename(tmpPath, outPath), then the best-effort sync of the directory.
Rename ==
    /\ pc = "write-rename"
    /\ \/ /\ outFile' = tmpFile
          /\ tmpFile' = Absent
          /\ writeErr' = "nil"
          /\ pc' = "write-done"
       \/ /\ failWith("rename temp output")
          /\ UNCHANGED outFile
    /\ UNCHANGED <<force, output, tmpCreated, outBefore, otherVars>>

NextWrite ==
    \/ Stat
    \/ CreateTemp
    \/ Chmod
    \/ Encode
    \/ EncodeFailed
    \/ Sync
    \/ Close
    \/ RemoveOut
    \/ Rename

SpecWrite == InitWrite /\ [][NextWrite]_vars

(***************************************************************************)
(* Properties of the merge run.                                            *)
(***************************************************************************)
Combined == pc = "combined"

NumServices == Len(export.Services)

\* normalizeKeyword on the keywords the pools and the alias table hold, tabulated.
PoolKeywords ==
    {d.Keyword : d \in DetectorPool \cup RerunDetectors \cup PolicyDetectors \cup PermuteDetectors}
        \cup {r.Keyword : r \in RulePool \cup RerunRules \cup PolicyRules \cup PermuteRules}
        \cup {serviceAliases[k] : k \in DOMAIN serviceAliases}

NormOf == [k \in PoolKeywords |-> normalizeKeyword(k)]

SvcNorm(j) == NormOf[export.Services[j].Keyword]

\* The normalized host keywords of the input, and the DirNames filed under a set of them.
THNorms == {NormOf[thDetectors[i].Keyword] : i \in 1..Len(thDetectors)}

DirsUnder(K) ==
    {thDetectors[i].DirName : i \in {i \in 1..Len(thDetectors) :
                                        NormOf[thDetectors[i].Keyword] \in K}}

HostsUnder(K) ==
    UNION {Range(thDetectors[i].Hosts) : i \in {i \in 1..Len(thDetectors) :
                                                   NormOf[thDetectors[i].Keyword] \in K}}

\* The indexed keywords a normalized rule keyword is a proper prefix of.
ProperExtensions(n) == {k \in THNorms : k # n /\ HasPrefix(k, n)}

ExactFails(j) == SvcNorm(j) \notin THNorms

AliasFails(j) ==
    \/ export.Services[j].Keyword \notin DOMAIN serviceAliases
    \/ NormOf[serviceAliases[export.Services[j].Keyword]] \notin THNorms

Ascending(seq) == \A a, b \in 1..Len(seq) : a < b => StrLess(seq[a], seq[b])

ConsumersOf(dir) == {j \in 1..NumServices : dir \in Range(export.Services[j].MatchedTH)}

THOnlyCount(dir) ==
    Cardinality({k \in 1..Len(export.THOnlyHosts) : export.THOnlyHosts[k].DirName = dir})

InputCount(dir) ==
    Cardinality({i \in 1..Len(thDetectors) : thDetectors[i].DirName = dir})

DistinctDirNames == \A i \in 1..Len(thDetectors) : InputCount(thDetectors[i].DirName) = 1

\* C1 as stated, on inputs without repeated DirNames: every detector is consumed
\* by exactly one service or appears exactly once in THOnlyHosts.
C1_ExactlyOneConsumer ==
    (Combined /\ DistinctDirNames) =>
        \A i \in 1..Len(thDetectors) :
            LET dir == thDetectors[i].DirName IN
            \/ Cardinality(ConsumersOf(dir)) = 1 /\ THOnlyCount(dir) = 0
            \/ ConsumersOf(dir) = {} /\ THOnlyCount(dir) = 1

\* C1 (amended): every detector is either consumed by at least one service (its
\* DirName is in the MatchedTH of one or more services) or is in THOnlyHosts,
\* never both and never neither; THOnlyHosts holds exactly one entry, a copy of
\* the detector, per input detector whose DirName no service lists.
C1_ConsumedOrHostOnly ==
    Combined =>
        /\ \A i \in 1..Len(thDetectors) :
              LET dir == thDetectors[i].DirName IN
              IF ConsumersOf(dir) # {}
              THEN THOnlyCount(dir) = 0
              ELSE /\ THOnlyCount(dir) = InputCount(dir)
                   /\ \E k \in 1..Len(export.THOnlyHosts) :
                         export.THOnlyHosts[k] = THOnlyEntry(thDetectors[i])
        /\ Len(export.THOnlyHosts) =
              Cardinality({i \in 1..Len(thDetectors) : ConsumersOf(thDetectors[i].DirName) = {}})
        /\ \A j \in 1..NumServices :
              Range(export.Services[j].MatchedTH) \subseteq DirsUnder(THNorms)

\* A detector consumed by two services (exact and alias) next to a host-only one.
C1_Witness ==
    /\ Combined
    /\ DistinctDirNames
    /\ \E i \in 1..Len(thDetectors) : Cardinality(ConsumersOf(thDetectors[i].DirName)) = 2
    /\ Len(export.THOnlyHosts) = 1

\* C2: ServicesWithHosts + ServicesNoHosts = len(Services), TotalServices =
\* len(Services) + len(THOnlyHosts), THOnlyServices = len(THOnlyHosts).
C2_StatsAddUp ==
    Combined =>
        /\ export.Stats.ServicesWithHosts + export.Stats.ServicesNoHosts = NumServices
        /\ export.Stats.TotalServices = NumServices + Len(export.THOnlyHosts)
        /\ export.Stats.THOnlyServices = Len(export.THOnlyHosts)

C2_Witness ==
    /\ Combined
    /\ export.Stats.ServicesWithHosts = 1
    /\ export.Stats.ServicesNoHosts = 1
    /\ export.Stats.THOnlyServices = 1
    /\ export.Stats.TotalServices = 3

\* C3: one service per distinct normalized rule keyword, and Services strictly
\* ascending in normalizeKeyword(Keyword), whatever the order of the rules.
C3_OneServicePerKeywordSorted ==
    Combined =>
        /\ {SvcNorm(j) : j \in 1..NumServices} =
              {NormOf[glRules[i].Keyword] : i \in 1..Len(glRules)}
        /\ NumServices =
              Cardinality({NormOf[glRules[i].Keyword] : i \in 1..Len(glRules)})
        /\ \A a, b \in 1..NumServices : a < b => StrLess(SvcNorm(a), SvcNorm(b))
        /\ \A a, b \in 1..NumServices :
              a # b => export.Services[a].Keyword # export.Services[b].Keyword

\* Two rules that arrive in descending keyword order.
C3_Witness ==
    /\ Combined
    /\ Len(glRules) = 2
    /\ StrLess(NormOf[glRules[2].Keyword], NormOf[glRules[1].Keyword])
    /\ NumServices = 2

\* C4: when the normalized rule keyword is a key of the host index, findTHMatch
\* returns exact with that one keyword, and the service consumes exactly the
\* detectors filed under it, also when an alias target or longer keywords are indexed.
C4_ExactWins ==
    Combined =>
        \A j \in 1..NumServices :
            SvcNorm(j) \in THNorms =>
                /\ matchLog[j] = [matched |-> <<SvcNorm(j)>>, matchType |-> "exact"]
                /\ export.Services[j].MatchType = "exact"
                /\ Range(export.Services[j].MatchedTH) = DirsUnder({SvcNorm(j)})

\* cisco-meraki matches the keyword ciscomeraki (of detector ciscomerakiapikey)
\* exactly while its alias target meraki is indexed too; meraki is left host-only.
C4_Witness ==
    /\ Combined
    /\ \E j \in 1..NumServices :
          /\ export.Services[j].Keyword = "cisco-meraki"
          /\ "meraki" \in THNorms
          /\ export.Services[j].MatchType = "exact"
          /\ export.Services[j].MatchedTH = <<"ciscomerakiapikey">>
    /\ \E k \in 1..Len(export.THOnlyHosts) : export.THOnlyHosts[k].DirName = "meraki"

\* C5: when exact fails and the rule keyword as given has an alias whose normal
\* form is indexed, findTHMatch returns alias with exactly that keyword and the
\* service gets its hosts; when the target is not indexed the result is the
\* prefix tier's.
C5_AliasTier ==
    Combined =>
        \A j \in 1..NumServices :
            (ExactFails(j) /\ export.Services[j].Keyword \in DOMAIN serviceAliases) =>
                LET target == NormOf[serviceAliases[export.Services[j].Keyword]] IN
                IF target \in THNorms
                THEN /\ matchLog[j] = [matched |-> <<target>>, matchType |-> "alias"]
                     /\ export.Services[j].MatchType = "alias"
                     /\ Range(export.Services[j].MatchedTH) = DirsUnder({target})
                     /\ Range(export.Services[j].Hosts) = HostsUnder({target})
                ELSE /\ matchLog[j].matchType \in {"prefix", ""}
                     /\ matchLog[j].matchType = "prefix" <=>
                           (Len(SvcNorm(j)) >= 4 /\ ProperExtensions(SvcNorm(j)) # {})

C5_Witness ==
    /\ Combined
    /\ \E j \in 1..NumServices :
          /\ export.Services[j].Keyword = "cisco-meraki"
          /\ matchLog[j] = [matched |-> <<"meraki">>, matchType |-> "alias"]
          /\ export.Services[j].Hosts = <<"api.meraki.com">>

\* C6: without an exact or alias match, findTHMatch returns prefix exactly when
\* the normalized rule keyword has at least 4 characters and is a proper prefix
\* of some indexed keyword; it then returns all those keywords, ascending; in
\* every other case it returns no match.
C6_PrefixTier ==
    Combined =>
        \A j \in 1..NumServices :
            (ExactFails(j) /\ AliasFails(j)) =>
                LET P == ProperExtensions(SvcNorm(j)) IN
                IF Len(SvcNorm(j)) >= 4 /\ P # {}
                THEN /\ matchLog[j].matchType = "prefix"
                     /\ Range(matchLog[j].matched) = P
                     /\ Ascending(matchLog[j].matched)
                     /\ Range(export.Services[j].MatchedTH) = DirsUnder(P)
                ELSE matchLog[j] = [matched |-> <<>>, matchType |-> ""]

\* coin is a prefix of coincap and coinbase, indexed in that order.
C6_Witness ==
    /\ Combined
    /\ Len(thDetectors) = 2
    /\ thDetectors[1].Keyword = "coincap"
    /\ thDetectors[2].Keyword = "coinbase"
    /\ \E j \in 1..NumServices :
          matchLog[j] = [matched |-> <<"coinbase", "coincap">>, matchType |-> "prefix"]

NoTierMatches(j) ==
    /\ ExactFails(j)
    /\ AliasFails(j)
    /\ Len(SvcNorm(j)) < 4 \/ ProperExtensions(SvcNorm(j)) = {}

\* C8: when no tier matches, findTHMatch returns type "" and no keywords; the
\* service has no hosts and no matched names, is listed in GLNoHosts, and
\* ServicesNoHosts counts it.
C8_NoMatch ==
    Combined =>
        /\ \A j \in 1..NumServices :
              NoTierMatches(j) =>
                  /\ matchLog[j] = [matched |-> <<>>, matchType |-> ""]
                  /\ export.Services[j].MatchType = ""
                  /\ export.Services[j].Hosts = <<>>
                  /\ export.Services[j].MatchedTH = <<>>
                  /\ export.Services[j].Keyword \in Range(export.GLNoHosts)
        /\ export.Stats.ServicesNoHosts =
              Cardinality({j \in 1..NumServices : export.Services[j].Hosts = <<>>})

\* An unmatched service next to a matched one, with detectors present.
C8_Witness ==
    /\ Combined
    /\ Len(thDetectors) > 0
    /\ \E j \in 1..NumServices : NoTierMatches(j) /\ export.GLNoHosts = <<export.Services[j].Keyword>>
    /\ \E j \in 1..NumServices : ~NoTierMatches(j)
    /\ export.Stats.ServicesNoHosts = 1

(***************************************************************************)
(* Properties of the repeated run.                                         *)
(***************************************************************************)
\* The input positions of the detectors indexed under the keywords K.
EntitiesUnder(K) == {i \in 1..Len(thDetectors) : NormOf[thDetectors[i].Keyword] \in K}

\* C14: Hosts of every service is the union of the host lists of all detectors
\* indexed under the matched keywords, ascending and without repeats, and
\* MatchedTH holds the DirName of each of those detectors, once per detector.
C14_HostsAreUnionOfAllEntities ==
    Combined =>
        \A j \in 1..NumServices :
            LET svc == export.Services[j]
                E == EntitiesUnder(Range(matchLog[j].matched))
            IN  /\ Range(svc.Hosts) = UNION {Range(thDetectors[i].Hosts) : i \in E}
                /\ Ascending(svc.Hosts)
                /\ Len(svc.MatchedTH) = Cardinality(E)
                /\ \A i \in E :
                      Cardinality({p \in 1..Len(svc.MatchedTH) :
                                      svc.MatchedTH[p] = thDetectors[i].DirName})
                          = Cardinality({i2 \in E : thDetectors[i2].DirName = thDetectors[i].DirName})

\* Two detectors with the keyword meraki, listed in descending DirName order.
C14_Witness ==
    /\ Combined
    /\ Len(thDetectors) = 2
    /\ thDetectors[1].DirName = "merakitoken"
    /\ \E j \in 1..NumServices :
          /\ export.Services[j].MatchedTH = <<"meraki", "merakitoken">>
          /\ export.Services[j].Hosts = <<"api.meraki.com", "dashboard.meraki.com", "n1.meraki.com">>

Reran == pc = "rerun"

\* C15: the second run of combine on the same lists returns the same Services,
\* whatever the orders in which the two runs visit their maps.
C15_SameServices ==
    Reran => export2.Services = export.Services

\* A run with a service of several hosts from several detectors, and one with
\* a prefix match of two keywords.
C15_Witness ==
    /\ Reran
    /\ export2.Services = export.Services
    /\ \/ \E j \in 1..NumServices :
             Len(export.Services[j].Hosts) >= 3 /\ Len(export.Services[j].MatchedTH) = 2
       \/ \E j \in 1..NumServices :
             export.Services[j].MatchType = "prefix" /\ Len(matchLog[j].matched) = 2

\* C16 as stated: the two runs return exports equal in every field.
C16_ByteIdentical ==
    Reran => (export2 = export /\ gondolin2 = gondolin)

\* C16 (amended): the two runs return exports equal in every field but
\* GeneratedAt, and the projection of each carries the GeneratedAt of its run.
C16_IdenticalButGeneratedAt ==
    Reran =>
        /\ export2 = [export EXCEPT !.GeneratedAt = export2.GeneratedAt]
        /\ gondolin2 = [gondolin EXCEPT !.GeneratedAt = gondolin2.GeneratedAt]
        /\ gondolin.GeneratedAt = export.GeneratedAt
        /\ gondolin2.GeneratedAt = export2.GeneratedAt

\* Two runs with services, host-only detectors and patterns, at different times.
C16_Witness ==
    /\ Reran
    /\ export2.GeneratedAt # export.GeneratedAt
    /\ Len(export.Services) = 2
    /\ Len(export.THOnlyHosts) = 1
    /\ Len(gondolin.ValuePatterns) = 2
    /\ gondolin2.ValuePatterns = gondolin.ValuePatterns

(***************************************************************************)
(* Properties of the projection run.                                       *)
(***************************************************************************)
Projected == pc = "projected"

WithHosts == {j \in 1..Len(export.Services) : Len(export.Services[j].Hosts) > 0}

\* C17: KeywordHostMap has a key exactly for the keywords of the services with
\* hosts, its value is the host list of such a service, and no service without
\* hosts has its keyword in the map.
C17_MapOfServicesWithHosts ==
    Projected =>
        /\ DOMAIN gondolin.KeywordHostMap = {export.Services[j].Keyword : j \in WithHosts}
        /\ \A k \in DOMAIN gondolin.KeywordHostMap :
              \E j \in WithHosts :
                  /\ export.Services[j].Keyword = k
                  /\ gondolin.KeywordHostMap[k] = export.Services[j].Hosts
        /\ \A j \in 1..Len(export.Services) :
              j \notin WithHosts => export.Services[j].Keyword \notin DOMAIN gondolin.KeywordHostMap

\* The export of the test: stripe with a host, age without.
C17_Witness ==
    /\ Projected
    /\ Len(export.Services) = 2
    /\ export.Services[1].Keyword = "stripe"
    /\ export.Services[2].Keyword = "age"
    /\ gondolin.KeywordHostMap = ("stripe" :> <<"api.stripe.com">>)

\* The services that hold a rule with the ID of pattern p.
OwnersOf(p) ==
    {j \in 1..Len(export.Services) :
        \E i \in 1..Len(export.Services[j].Rules) : export.Services[j].Rules[i].ID = p.ID}

RuleCount(id) ==
    Cardinality(UNION {{<<j, i>> : i \in {i \in 1..Len(export.Services[j].Rules) :
                                              export.Services[j].Rules[i].ID = id}} :
                       j \in 1..Len(export.Services)})

PatternCount(id) ==
    Cardinality({p \in 1..Len(gondolin.ValuePatterns) : gondolin.ValuePatterns[p].ID = id})

\* C18: ValuePatterns holds one pattern per rule of every service; a pattern
\* with a keyword has the keyword of its service and that keyword is a key of
\* KeywordHostMap; the patterns of a service without a key in KeywordHostMap
\* have no keyword.
C18_LinkedOnlyIfMapped ==
    Projected =>
        /\ \A p \in 1..Len(gondolin.ValuePatterns) :
              PatternCount(gondolin.ValuePatterns[p].ID) = RuleCount(gondolin.ValuePatterns[p].ID)
        /\ \A j \in 1..Len(export.Services) : \A i \in 1..Len(export.Services[j].Rules) :
              PatternCount(export.Services[j].Rules[i].ID) >= 1
        /\ \A p \in 1..Len(gondolin.ValuePatterns) :
              LET pat == gondolin.ValuePatterns[p] IN
              /\ pat.Keyword # "" =>
                    /\ pat.Keyword \in DOMAIN gondolin.KeywordHostMap
                    /\ \E j \in OwnersOf(pat) : export.Services[j].Keyword = pat.Keyword
              /\ (\A j \in OwnersOf(pat) :
                      export.Services[j].Keyword \notin DOMAIN gondolin.KeywordHostMap)
                    => pat.Keyword = ""

\* The linked patterns come first, each group ascending in (Keyword, ID).
PatternsInOrder(patterns) ==
    \A a, b \in 1..Len(patterns) :
        a < b =>
            LET x == patterns[a]
                y == patterns[b]
            IN  /\ x.Keyword = "" => y.Keyword = ""
                /\ (x.Keyword = "") = (y.Keyword = "") =>
                      \/ StrLess(x.Keyword, y.Keyword)
                      \/ x.Keyword = y.Keyword /\ ~StrLess(y.ID, x.ID)

Reverse(seq) == [i \in 1..Len(seq) |-> seq[Len(seq) + 1 - i]]

\* C19: in ValuePatterns every pattern with a keyword precedes every pattern
\* without one, each group is ordered by keyword and then by ID, and the list is
\* the same when the services are given in the opposite order.
C19_PatternsSorted ==
    Projected =>
        /\ PatternsInOrder(gondolin.ValuePatterns)
        /\ gondolin.ValuePatterns =
              toGondolinExport([export EXCEPT !.Services = Reverse(@)]).ValuePatterns

\* zebra (no hosts) given before alpha (hosts, rule IDs descending).
C19_Witness ==
    /\ Projected
    /\ Len(export.Services) = 2
    /\ export.Services[1].Keyword = "zebra"
    /\ export.Services[2].Keyword = "alpha"
    /\ [p \in 1..Len(gondolin.ValuePatterns) |-> gondolin.ValuePatterns[p].ID]
          = <<"alpha-key", "alpha-token", "zebra-key">>

(***************************************************************************)
(* Properties of the consumer run.                                         *)
(***************************************************************************)
\* The keys and host lists a map of slices stands for.
Deref(m) == [k \in DOMAIN m |-> hostArrays[m[k]]]

\* C20: toGondolinExport returns the keys and host lists of the static table,
\* and no edit made through the returned map changes the static table or what a
\* later call returns.
C20_StaticTableNeverExposed ==
    /\ (Projected /\ edits = 0) => Deref(gondolin.ExactNameHostMap) = exactNameHostMapLiteral
    /\ Deref(exactNameHostMap) = exactNameHostMapLiteral
    /\ pc = "projected-again" => Deref(gondolin2.ExactNameHostMap) = exactNameHostMapLiteral

(***************************************************************************)
(* Properties of the permuted run.                                         *)
(***************************************************************************)
Permuted == pc = "permuted"

\* The rules of gl filed under the normalized keyword of display keyword k.
GroupOf(k) == {i \in 1..Len(glRules) : NormOf[glRules[i].Keyword] = NormOf[k]}

NonDecreasing(seq) == \A a, b \in 1..Len(seq) : a < b => ~StrLess(seq[b], seq[a])

\* C24 as stated: every list of the output is sorted on an explicit key, so each
\* list is the same for every permutation of the two input lists.
C24_ListsSameForEveryPermutation ==
    Permuted =>
        /\ export2.Services = export.Services
        /\ export2.THOnlyHosts = export.THOnlyHosts
        /\ export2.GLNoHosts = export.GLNoHosts

\* C24 as amended: Services is ascending by normalized keyword, each Hosts and
\* GLNoHosts is ascending, each MatchedTH and THOnlyHosts (by Keyword) is
\* non-decreasing; nothing is said of Rules, which keep the input order.
C24_ListsSortedOnKeys ==
    (Combined \/ Permuted) =>
        /\ \A a, b \in 1..Len(export.Services) :
              a < b => StrLess(NormOf[export.Services[a].Keyword],
                               NormOf[export.Services[b].Keyword])
        /\ \A j \in 1..Len(export.Services) :
              /\ Ascending(export.Services[j].Hosts)
              /\ NonDecreasing(export.Services[j].MatchedTH)
        /\ Ascending(export.GLNoHosts)
        /\ NonDecreasing([i \in 1..Len(export.THOnlyHosts) |-> export.THOnlyHosts[i].Keyword])

\* Two host-only detectors given in descending order of keyword come out in
\* ascending order, next to a service without hosts.
C24_Witness ==
    /\ Combined
    /\ Len(thDetectors) = 2
    /\ Len(export.THOnlyHosts) = 2
    /\ StrLess(thDetectors[2].Keyword, thDetectors[1].Keyword)
    /\ StrLess(export.THOnlyHosts[1].Keyword, export.THOnlyHosts[2].Keyword)
    /\ Len(export.Services) > 0
    /\ Len(export.GLNoHosts) > 0

\* The p-th smallest index of the set G of indices.
NthOf(G, p) == CHOOSE i \in G : Cardinality({k \in G : k <= i}) = p

\* C25: when several rules share a normalized keyword, the service's Keyword is
\* the display keyword of the first such rule in input order, and the rules of
\* the group are attached to that one service in their input order.
C25_FirstSeenKeywordRulesInInputOrder ==
    Combined =>
        \A j \in 1..NumServices :
            LET svc == export.Services[j]
                G == GroupOf(svc.Keyword)
            IN  /\ G # {}
                /\ svc.Keyword = glRules[NthOf(G, 1)].Keyword
                /\ Len(svc.Rules) = Cardinality(G)
                /\ \A p \in 1..Len(svc.Rules) :
                      svc.Rules[p] = CombinedRule(glRules[NthOf(G, p)])

\* One service of two rules with different display keywords, labelled by the
\* first, which is not the smaller of the two.
C25_Witness ==
    /\ Combined
    /\ Len(glRules) = 2
    /\ glRules[1].Keyword = "maxmindlicense"
    /\ glRules[2].Keyword = "maxmind-license"
    /\ NumServices = 1
    /\ export.Services[1].Keyword = "maxmindlicense"
    /\ export.Services[1].Rules[1].ID = "maxmindlicense-key"
    /\ export.Services[1].Rules[2].ID = "maxmind-license-key"

\* The rules, as pairs of service and position, of the services in J.
RulesOf(J) == UNION {{<<j, p>> : p \in 1..Len(export.Services[j].Rules)} : j \in J}

\* C27: MatchExact + MatchPrefix + MatchAlias is ServicesWithHosts, and
\* RulesWithHosts is the number of rules of the services whose host set is not
\* empty; a service whose match succeeded but whose entities have no host is
\* counted in ServicesNoHosts and in no counter of a match type.
C27_MatchCountersOnlyWithHosts ==
    Combined =>
        LET st == export.Stats
            typed(t) == {j \in WithHosts : export.Services[j].MatchType = t}
        IN  /\ st.MatchExact + st.MatchPrefix + st.MatchAlias = st.ServicesWithHosts
            /\ st.ServicesWithHosts = Cardinality(WithHosts)
            /\ st.RulesWithHosts = Cardinality(RulesOf(WithHosts))
            /\ st.ServicesNoHosts = Cardinality((1..NumServices) \ WithHosts)
            /\ st.MatchExact = Cardinality(typed("exact"))
            /\ st.MatchPrefix = Cardinality(typed("prefix"))
            /\ st.MatchAlias = Cardinality(typed("alias"))

\* The rule of aws matches the detector aws, which has no host, next to a
\* service matched by alias that has one.
C27_Witness ==
    /\ Combined
    /\ NumServices = 2
    /\ export.Services[1].Keyword = "aws"
    /\ export.Services[1].MatchType = "exact"
    /\ export.Services[1].MatchedTH = <<"aws">>
    /\ export.Services[1].Hosts = <<>>
    /\ export.Stats.ServicesNoHosts = 1
    /\ export.Stats.MatchExact = 0
    /\ export.Stats.MatchAlias = 1
    /\ export.Stats.ServicesWithHosts = 1

\* C26: the hosts and the match type of a service do not depend on the order of
\* the inputs: after a permutation of the lists the service of each normalized
\* keyword has the same Hosts, MatchType and MatchedTH.
C26_MatchIndependentOfInputOrder ==
    Permuted =>
        /\ Len(export2.Services) = Len(export.Services)
        /\ \A j \in 1..Len(export.Services) :
              /\ NormOf[export2.Services[j].Keyword] = NormOf[export.Services[j].Keyword]
              /\ export2.Services[j].Hosts = export.Services[j].Hosts
              /\ export2.Services[j].MatchType = export.Services[j].MatchType
              /\ export2.Services[j].MatchedTH = export.Services[j].MatchedTH

(***************************************************************************)
(* Properties of the policy run.                                           *)
(***************************************************************************)
\* C21: the gondolin export never links the keyword private-key to a host:
\* KeywordHostMap has no private-key entry, also when a host entity with keyword
\* privatekey is present together with a rule whose keyword is private-key.
C21_PrivateKeyNeverLinked ==
    Projected => "private-key" \notin DOMAIN gondolin.KeywordHostMap

\* C22: the gondolin export carries the explicit AWS host mappings on every
\* input: KeywordHostMap["aws"] is sts.amazonaws.com, *.amazonaws.com, and
\* ExactNameHostMap has entries for AWS_ACCESS_KEY_ID and AWS_SECRET_ACCESS_KEY.
C22_ExplicitAwsMappings ==
    Projected =>
        /\ "aws" \in DOMAIN gondolin.KeywordHostMap
        /\ gondolin.KeywordHostMap["aws"] = <<"sts.amazonaws.com", "*.amazonaws.com">>
        /\ {"AWS_ACCESS_KEY_ID", "AWS_SECRET_ACCESS_KEY"} \subseteq DOMAIN gondolin.ExactNameHostMap

\* C28: for export = combine(th, gl) and g = toGondolinExport(export), the
\* number of patterns is TotalRules and the length of gl, the number of patterns
\* with a linked keyword is RulesWithHosts, and the size of KeywordHostMap is
\* ServicesWithHosts.
C28_ProjectionAgreesWithStats ==
    Projected =>
        /\ Len(gondolin.ValuePatterns) = export.Stats.TotalRules
        /\ export.Stats.TotalRules = Len(glRules)
        /\ countLinkedPatterns(gondolin.ValuePatterns) = export.Stats.RulesWithHosts
        /\ Cardinality(DOMAIN gondolin.KeywordHostMap) = export.Stats.ServicesWithHosts

(***************************************************************************)
(* Properties of the write run.                                            *)
(***************************************************************************)
Returned == pc = "write-done"

\* C23: when the file at outPath exists and force is not given, writeJSONAtomic
\* returns an error without creating a temporary file and leaves the file as it
\* was; an existing file is replaced (or removed) only when force is given.
C23_ExistingFileKeptWithoutForce ==
    /\ (outBefore.exists /\ ~force) => (~tmpCreated /\ tmpFile = Absent /\ outFile = outBefore)
    /\ (Returned /\ outBefore.exists /\ ~force) => writeErr \notin {"", "nil"}
    /\ (outBefore.exists /\ outFile # outBefore) => force

\* The call has returned "already exists" with the old file in place.
C23_Witness ==
    /\ Returned
    /\ ~force
    /\ outBefore = File("{old}")
    /\ outFile = File("{old}")
    /\ writeErr = "output file already exists"
    /\ ~tmpCreated

\* C29: after any outcome of writeJSONAtomic the file at outPath holds its
\* complete previous content or the complete new JSON, never a partial file and
\* never no file where one existed, and on every failure the temporary file
\* has been removed.
C29_DestinationOldOrNew ==
    Returned =>
        /\ outFile \in {outBefore, File(output)}
        /\ outBefore.exists => outFile.exists
        /\ writeErr # "nil" => tmpFile = Absent

(***************************************************************************)
(* Properties of the derivation run.                                       *)
(***************************************************************************)
Derived == pc = "derived"

\* The tokens of the identifier, trimmed and lower-cased as the function reads it.
IDTokens == Split(ToLower(TrimSpace(ruleID)), "-")

\* How many tokens precede the first credential word.
TokensBeforeCredential ==
    CHOOSE k \in 0..Len(IDTokens) :
        /\ \A i \in 1..k : IDTokens[i] \notin credentialWords
        /\ k = Len(IDTokens) \/ IDTokens[k + 1] \in credentialWords

\* C9: when the first token is not a credential word, the result is the tokens
\* before the first credential word joined with "-", or the override of that
\* candidate when glServiceOverrides has one.
C9_ServiceTokens ==
    (Derived /\ IDTokens[1] \notin credentialWords) =>
        LET candidate == Join(SubSeq(IDTokens, 1, TokensBeforeCredential), "-") IN
        derived = IF candidate \in DOMAIN glServiceOverrides
                  THEN glServiceOverrides[candidate]
                  ELSE candidate

\* new-relic-key: the credential word is cut off and the candidate overridden.
C9_Witness ==
    /\ Derived
    /\ ruleID = "new-relic-key"
    /\ derived = "newrelic"

\* C10 as stated: when the first token is a credential word the result is the
\* identifier as given.
C10_ReturnsIdentifierUnmodified ==
    (Derived /\ IDTokens[1] \in credentialWords) => derived = ruleID

\* C10 (amended): when the first token is a credential word the result is the
\* whole identifier, trimmed and lower-cased, with no token removed.
C10_ReturnsWholeIdentifierLowered ==
    (Derived /\ IDTokens[1] \in credentialWords) =>
        /\ derived = ToLower(TrimSpace(ruleID))
        /\ Split(derived, "-") = IDTokens

\* An identifier of credential words only, with an upper-case letter and spaces around it.
C10_Witness ==
    /\ Derived
    /\ ruleID = " private-Key "
    /\ derived = "private-key"

\* C30: deriveKeywordFromGitleaksID returns the empty string only for empty or
\* whitespace-only input: an identifier that is non-empty after trimming, also
\* one with a leading hyphen or empty tokens, derives to a non-empty keyword.
C30_EmptyOnlyForBlankIdentifier ==
    (Derived /\ derived = "") => TrimSpace(ruleID) = ""

(***************************************************************************)
(* Properties of the name run.                                             *)
(***************************************************************************)
THDerived == pc = "th-derived"

\* The name as deriveKeywordFromTHName reads it.
LoweredName == ToLower(TrimSpace(rawName))

StripOf(n, i) == SubSeq(n, 1, Len(n) - Len(credentialSuffixes[i]))

\* The list entries that match the end of n, and those whose strip leaves 3 characters.
MatchingSuffixes(n) ==
    {i \in 1..Len(credentialSuffixes) : HasSuffix(n, credentialSuffixes[i])}

AcceptedSuffixes(n) ==
    {i \in MatchingSuffixes(n) : Len(n) - Len(credentialSuffixes[i]) >= 3}

FirstOf(I) == CHOOSE i \in I : \A j \in I : i <= j

LongestOf(I) ==
    CHOOSE i \in I : \A j \in I : Len(credentialSuffixes[j]) <= Len(credentialSuffixes[i])

\* C11 as stated, on the name as given: a name that is not an override key
\* yields the name with the first accepted suffix removed, or the name
\* unchanged; so the name itself or a prefix of it of at least 3 characters.
C11_NameOrPrefixOfName ==
    (THDerived /\ rawName \notin DOMAIN thKeywordOverrides) =>
        /\ thKeyword = IF AcceptedSuffixes(rawName) = {} THEN rawName
                       ELSE StripOf(rawName, FirstOf(AcceptedSuffixes(rawName)))
        /\ \/ thKeyword = rawName
           \/ HasPrefix(rawName, thKeyword) /\ Len(thKeyword) >= 3

\* C11 (amended): with n the name trimmed and lower-cased, and n not an override
\* key, the result is n with the first list entry removed that matches the end
\* of n and leaves at least 3 characters, or n when there is none; so the
\* result is n or a prefix of n of at least 3 characters.
C11_FirstAcceptedSuffixOfLoweredName ==
    (THDerived /\ LoweredName \notin DOMAIN thKeywordOverrides) =>
        /\ thKeyword = IF AcceptedSuffixes(LoweredName) = {} THEN LoweredName
                       ELSE StripOf(LoweredName, FirstOf(AcceptedSuffixes(LoweredName)))
        /\ \/ thKeyword = LoweredName
           \/ HasPrefix(LoweredName, thKeyword) /\ Len(thKeyword) >= 3

\* npmtokenv2 loses tokenv2.
C11_Witness ==
    /\ THDerived
    /\ rawName = "npmtokenv2"
    /\ thKeyword = "npm"

\* C12: no list entry comes after a shorter entry that is a suffix of it; so the
\* first entry matching the end of a name is the longest one matching it, and
\* the in-order scan returns what picking the longest matching entry that
\* leaves at least 3 characters returns.
C12_ScanPicksLongest ==
    /\ \A i, j \in 1..Len(credentialSuffixes) :
          i < j => ~HasSuffix(credentialSuffixes[j], credentialSuffixes[i])
    /\ (THDerived /\ LoweredName \notin DOMAIN thKeywordOverrides) =>
          /\ MatchingSuffixes(LoweredName) # {} =>
                FirstOf(MatchingSuffixes(LoweredName)) = LongestOf(MatchingSuffixes(LoweredName))
          /\ thKeyword = IF AcceptedSuffixes(LoweredName) = {} THEN LoweredName
                         ELSE StripOf(LoweredName, LongestOf(AcceptedSuffixes(LoweredName)))

\* ioapikey: the longest match apikey would leave io, and key is stripped.
C12_Witness ==
    /\ THDerived
    /\ rawName = "ioapikey"
    /\ Cardinality(MatchingSuffixes(rawName)) = 2
    /\ thKeyword = "ioapi"

\* The positions of kw that are neither "-" nor "_".
KeptPositions == {i \in 1..Len(kw) : CharAt(kw, i) \notin {"-", "_"}}

NthKept(p) == CHOOSE i \in KeptPositions : Cardinality({j \in KeptPositions : j <= i}) = p

\* C13: normalizing a normal form returns it unchanged, and the normal form of s
\* is s lower-cased with every "-" and "_" removed.
C13_Idempotent ==
    pc = "normalized-twice" =>
        /\ normTwice = normOnce
        /\ Len(normOnce) = Cardinality(KeptPositions)
        /\ \A p \in 1..Len(normOnce) : CharAt(normOnce, p) = LowerOf[CharAt(kw, NthKept(p))]

C13_Witness ==
    /\ pc = "normalized-twice"
    /\ kw = "--Key"
    /\ normOnce = "key"
    /\ normTwice = "key"

====
